---- MODULE Spec2Model ----
(***************************************************************************)
(* Model of pbs_lookup_app.py: the PBS item lookup / authority application *)
(* helper.  Strings are sequences of one-character strings so that case    *)
(* folding, substring search, replacement and regular-expression           *)
(* substitution are computed and not assumed.                              *)
(***************************************************************************)
EXTENDS Integers, Sequences, FiniteSets, TLC

(* ---------------------------------------------------------------------- *)
(* Bounds                                                                 *)
(* ---------------------------------------------------------------------- *)
MaxSchedules == 2
MaxItems == 2
MaxRows == 2
MaxRestrictions == 2
MaxFragments == 3

(* ---------------------------------------------------------------------- *)
(* Python values                                                          *)
(* ---------------------------------------------------------------------- *)
None == [py |-> "None"]
NL == "\n"
BULLET == "bullet"

(* ---------------------------------------------------------------------- *)
(* str methods                                                            *)
(* ---------------------------------------------------------------------- *)
UpperChar(c) ==
  CASE c = "a" -> "A" [] c = "b" -> "B" [] c = "e" -> "E"
    [] c = "m" -> "M" [] c = "p" -> "P" [] c = "z" -> "Z"
    [] OTHER -> c

LowerChar(c) ==
  CASE c = "A" -> "a" [] c = "B" -> "b" [] c = "E" -> "e"
    [] c = "M" -> "m" [] c = "P" -> "p" [] c = "Z" -> "z"
    [] OTHER -> c

upper(s) == [i \in 1..Len(s) |-> UpperChar(s[i])]

lower(s) == [i \in 1..Len(s) |-> LowerChar(s[i])]

\* needle in hay
Contains(needle, hay) ==
  \E i \in 0..(Len(hay) - Len(needle)) :
    SubSeq(hay, i + 1, i + Len(needle)) = needle

RECURSIVE replace(_, _, _)
replace(s, old, new) ==
  IF Len(s) < Len(old) THEN s
  ELSE IF SubSeq(s, 1, Len(old)) = old
       THEN new \o replace(SubSeq(s, Len(old) + 1, Len(s)), old, new)
       ELSE <<Head(s)>> \o replace(Tail(s), old, new)

IsSpace(c) == c \in {" ", NL}

RECURSIVE lstrip(_)
lstrip(s) ==
  IF s # <<>> /\ IsSpace(Head(s)) THEN lstrip(Tail(s)) ELSE s

RECURSIVE rstrip(_)
rstrip(s) ==
  IF s # <<>> /\ IsSpace(s[Len(s)]) THEN rstrip(SubSeq(s, 1, Len(s) - 1)) ELSE s

strip(s) == rstrip(lstrip(s))

(* ---------------------------------------------------------------------- *)
(* re.sub for the three patterns of get_restriction_texts                 *)
(* ---------------------------------------------------------------------- *)
Min(S) == CHOOSE x \in S : \A y \in S : x <= y
Max(S) == CHOOSE x \in S : \A y \in S : x >= y

\* '<[^<]+?>' anchored at s[1] = "<": index of the closing ">" of the
\* shortest match, 0 when there is none
TagEnd(s) ==
  LET ends == {j \in 3..Len(s) :
                 s[j] = ">" /\ \A k \in 2..(j - 1) : s[k] # "<"}
  IN IF ends = {} THEN 0 ELSE Min(ends)

RECURSIVE sub_tags(_)
sub_tags(s) ==
  IF s = <<>> THEN <<>>
  ELSE IF Head(s) = "<" /\ TagEnd(s) > 0
       THEN sub_tags(SubSeq(s, TagEnd(s) + 1, Len(s)))
       ELSE <<Head(s)>> \o sub_tags(Tail(s))

\* length of the run of whitespace at the start of s
SpaceRun(s) ==
  Max({n \in 0..Len(s) : \A k \in 1..n : IsSpace(s[k])})

\* '\n\s*\n\s*\n+' anchored at s[1] = NL: index of the last newline of the
\* whitespace run when the run holds three newlines, 0 otherwise
NewlinesEnd(s) ==
  LET nls == {j \in 1..SpaceRun(s) : s[j] = NL}
  IN IF Cardinality(nls) >= 3 THEN Max(nls) ELSE 0

RECURSIVE sub_newlines(_)
sub_newlines(s) ==
  IF s = <<>> THEN <<>>
  ELSE IF Head(s) = NL /\ NewlinesEnd(s) > 0
       THEN <<NL, NL>> \o sub_newlines(SubSeq(s, NewlinesEnd(s) + 1, Len(s)))
       ELSE <<Head(s)>> \o sub_newlines(Tail(s))

\* length of the run of spaces at the start of s
SpaceRunOnly(s) ==
  Max({n \in 0..Len(s) : \A k \in 1..n : s[k] = " "})

RECURSIVE sub_spaces(_)
sub_spaces(s) ==
  IF s = <<>> THEN <<>>
  ELSE IF Head(s) = " "
       THEN <<" ">> \o sub_spaces(SubSeq(s, SpaceRunOnly(s) + 1, Len(s)))
       ELSE <<Head(s)>> \o sub_spaces(Tail(s))

(* ---------------------------------------------------------------------- *)
(* Literals of the restriction text clean-up                              *)
(* ---------------------------------------------------------------------- *)
TAG_BR == <<"<", "b", "r", ">">>

TAG_BR_SLASH == <<"<", "b", "r", "/", ">">>

TAG_BR_SPACE_SLASH == <<"<", "b", "r", " ", "/", ">">>

TAG_P_CLOSE == <<"<", "/", "p", ">">>

TAG_P == <<"<", "p", ">">>

TAG_LI_CLOSE == <<"<", "/", "l", "i", ">">>

TAG_LI == <<"<", "l", "i", ">">>

TAG_DIV_CLOSE == <<"<", "/", "d", "i", "v", ">">>

TAG_DIV == <<"<", "d", "i", "v", ">">>

ENT_NBSP == <<"&", "n", "b", "s", "p", ";">>

ENT_AMP == <<"&", "a", "m", "p", ";">>

ENT_LT == <<"&", "l", "t", ";">>

ENT_GT == <<"&", "g", "t", ";">>

(* ---------------------------------------------------------------------- *)
(* get_restriction_texts, lines 128-144: markup to plain text             *)
(* ---------------------------------------------------------------------- *)
\* lines 128-131: common HTML elements become newlines and bullets
ReplaceElements(text) ==
  LET t1 == replace(replace(replace(text, TAG_BR, <<NL>>), TAG_BR_SLASH, <<NL>>),
                    TAG_BR_SPACE_SLASH, <<NL>>)
      t2 == replace(replace(t1, TAG_P_CLOSE, <<NL, NL>>), TAG_P, <<>>)
      t3 == replace(replace(t2, TAG_LI_CLOSE, <<NL>>), TAG_LI, <<BULLET, " ">>)
  IN replace(replace(t3, TAG_DIV_CLOSE, <<NL>>), TAG_DIV, <<>>)

\* lines 141-142: the four entities, decoded one after the other
DecodeEntities(s) ==
  replace(replace(replace(replace(s, ENT_NBSP, <<" ">>), ENT_AMP, <<"&">>),
                  ENT_LT, <<"<">>), ENT_GT, <<">">>)

clean_text(text) ==
  strip(DecodeEntities(sub_spaces(sub_newlines(sub_tags(ReplaceElements(text))))))

(* ---------------------------------------------------------------------- *)
(* dict helpers                                                           *)
(* ---------------------------------------------------------------------- *)
\* a or b, for strings
Or(a, b) == IF a # <<>> THEN a ELSE b

\* d[k] = v on an insertion-ordered dict, kept as a sequence of entries
DictPut(d, k, v) ==
  IF \E i \in 1..Len(d) : d[i].key = k
  THEN [i \in 1..Len(d) |-> IF d[i].key = k THEN [key |-> k, value |-> v] ELSE d[i]]
  ELSE Append(d, [key |-> k, value |-> v])

\* list(d.keys())
DictKeys(d) == [i \in 1..Len(d) |-> d[i].key]

\* d[k]
DictGet(d, k) == (CHOOSE e \in {d[i] : i \in 1..Len(d)} : e.key = k).value

\* sequences over S of length at most n
SeqUpTo(S, n) == UNION {[1..k -> S] : k \in 0..n}

(* ---------------------------------------------------------------------- *)
(* Sidebar and search inputs                                              *)
(* ---------------------------------------------------------------------- *)
\* provider_number text input, default "000000"
ProviderNumbers == {<<"0", "0", "0", "0", "0", "0">>, <<"1", "2">>}

\* item_code_input; the empty string is the untouched text box
ItemCodeInputs == {<<>>, <<"1", "a">>, <<"2", "B">>}

\* drug_name_input
DrugNameInputs == {<<>>, <<"p", "e">>, <<"E", "M">>, <<"z">>}

(* ---------------------------------------------------------------------- *)
(* Records the catalog service can return.  An absent key, a null and an  *)
(* empty string are all the empty sequence: every read of these fields in *)
(* the code goes through x.get(k, '') or through a chain of "or".         *)
(* ---------------------------------------------------------------------- *)
MaxScheduleCode == 2

\* the sort key default of line 200; a schedule entry without schedule_code
NoScheduleCode == 0

ScheduleEntries == [schedule_code : NoScheduleCode..MaxScheduleCode]

Item(pbs, cd, li, dn, prog, ben) ==
  [pbs_code |-> pbs, code |-> cd, li_drug_name |-> li, drug_name |-> dn,
   program_code |-> prog, benefit_type_code |-> ben]

CatalogItems ==
  { Item(<<"1", "A">>, <<>>, <<"P", "e", "m">>, <<>>, <<"G", "E">>, "A"),
    Item(<<"1", "a">>, <<>>, <<"P", "e", "m">>, <<>>, <<"G", "E">>, "S"),
    Item(<<"1", "A">>, <<>>, <<"P", "e", "m">>, <<>>, <<"G", "E">>, "U"),
    Item(<<"2", "B">>, <<>>, <<>>, <<"a", "b">>, <<>>, "U"),
    Item(<<>>, <<>>, <<"a", "b">>, <<>>, <<>>, "") }

RelationshipRows == [res_code : {<<>>, <<"R", "1">>, <<"R", "2">>}]

Restriction(rc, li, sched, phase, method) ==
  [res_code |-> rc, li_html_text |-> li, schedule_html_text |-> sched,
   treatment_phase |-> phase, authority_method |-> method]

CatalogRestrictions ==
  { Restriction(<<"R", "1">>, <<"a", "<", "b", "r", ">", "b">>, <<>>, <<"I">>, <<"S">>),
    Restriction(<<"R", "1">>, <<>>, <<"b", " ", "&", "a", "m", "p", ";", " ", "c">>, <<>>, <<>>),
    Restriction(<<"R", "2">>, <<"<", "p", ">">>, <<>>, <<"I">>, <<>>),
    Restriction(<<"R", "2">>, <<"c">>, <<>>, <<"I">>, <<"S">>),
    Restriction(<<>>, <<"a">>, <<>>, <<>>, <<>>) }

(* ---------------------------------------------------------------------- *)
(* Upstream responses                                                     *)
(*   kind  "exception" requests.get raised (timeout, connection)          *)
(*         "status"    a status code other than 200                       *)
(*         "badjson"   status 200, response.json() raised                 *)
(*         "json"      status 200 and a JSON payload                      *)
(*   shape "data" a dict with a 'data' key, "list" a bare array,          *)
(*         "other" anything else                                          *)
(* ---------------------------------------------------------------------- *)
Response(kind, shape, data) == [kind |-> kind, shape |-> shape, data |-> data]

NoResponse == Response("none", "other", <<>>)

FailedResponses ==
  { Response("exception", "other", <<>>),
    Response("status", "other", <<>>),
    Response("badjson", "other", <<>>),
    Response("json", "other", <<>>) }

Responses(records, n) ==
  FailedResponses \cup
  { Response("json", shape, data) :
      shape \in {"data", "list"}, data \in SeqUpTo(records, n) }

ScheduleResponses == Responses(ScheduleEntries, MaxSchedules)

ItemResponses == Responses(CatalogItems, MaxItems)

RelationshipResponses == Responses(RelationshipRows, MaxRows)

RestrictionResponses == Responses(CatalogRestrictions, MaxRestrictions)

\* requests.get(url, params=...): the endpoint and the query parameters
Request(endpoint, pbs, sc, filter) ==
  [endpoint |-> endpoint, pbs_code |-> pbs, schedule_code |-> sc, filter |-> filter]

\* st.error / st.warning / st.info / st.success / st.write
Message(level, by, text) == [level |-> level, by |-> by, text |-> text]

(* ---------------------------------------------------------------------- *)
(* State                                                                  *)
(* ---------------------------------------------------------------------- *)
VARIABLES
  pc,                        \* position of the script run
  provider_number,           \* sidebar input
  item_code_input,           \* tab 1 input
  drug_name_input,           \* tab 2 input
  requests,                  \* upstream requests issued, in order
  response,                  \* the response last received; NoResponse while a request is outstanding
  messages,                  \* what the page has shown, in order
  schedules,                 \* local of get_item_by_code / search_items
  schedule_code,             \* schedule in use
  result,                    \* item returned by get_item_by_code
  results,                   \* dict returned by search_items
  item_options,              \* tab 2 choice prompt
  item_data,                 \* item shown by display_item_details
  restriction_codes,         \* local of get_restriction_texts
  restriction_list,          \* return value of get_restriction_texts
  restriction_options,       \* restriction choice prompt
  selected_restriction_text,
  application_text,          \* the formatted block, <<>> while none is shown
  raw_text,                  \* text handed to the clean-up
  cleaned_once,
  cleaned_twice

lookup_vars == <<schedules, schedule_code, result, results, item_options>>

display_vars ==
  <<item_data, restriction_codes, restriction_list, restriction_options,
    selected_restriction_text, application_text>>

cleanup_vars == <<raw_text, cleaned_once, cleaned_twice>>

vars ==
  <<pc, provider_number, item_code_input, drug_name_input, requests, response,
    messages, lookup_vars, display_vars, cleanup_vars>>

NO_RESTRICTIONS == <<"N", "o", " ", "r", "e", "s", "t", "r", "i", "c", "t", "i", "o", "n", "s">>

NOT_AVAILABLE == <<"N", "/", "A">>

Init ==
  /\ pc = "idle"
  /\ provider_number \in ProviderNumbers
  /\ item_code_input = <<>>
  /\ drug_name_input = <<>>
  /\ requests = <<>>
  /\ response = NoResponse
  /\ messages = <<>>
  /\ schedules = <<>>
  /\ schedule_code = NoScheduleCode
  /\ result = None
  /\ results = None
  /\ item_options = <<>>
  /\ item_data = None
  /\ restriction_codes = {}
  /\ restriction_list = <<>>
  /\ restriction_options = <<>>
  /\ selected_restriction_text = NO_RESTRICTIONS
  /\ application_text = <<>>
  /\ raw_text = <<>>
  /\ cleaned_once = <<>>
  /\ cleaned_twice = <<>>

(* ---------------------------------------------------------------------- *)
(* Pure parts of the operations                                           *)
(* ---------------------------------------------------------------------- *)
\* faulty variant: the first entry of the array, whatever its schedule_code
latest_schedule_FirstEntry(scheds) == scheds[1]

\* sorted(schedules, key=lambda x: x.get('schedule_code', 0), reverse=True)[0]
\* the sort is stable: of the entries with the greatest key the first one
latest_schedule(scheds) ==
  LET top == Max({scheds[i].schedule_code : i \in 1..Len(scheds)})
  IN scheds[Min({i \in 1..Len(scheds) : scheds[i].schedule_code = top})]

\* [item for item in items if item.get('pbs_code', '').upper() == item_code.upper()]
exact_matches(items, item_code) ==
  SelectSeq(items, LAMBDA item : upper(item.pbs_code) = upper(item_code))

\* faulty variant: the first returned item, without the exact-match filter
ItemByCode_FirstReturned(items, item_code) == items[1]

\* lines 224-227
ItemByCode(items, item_code) ==
  IF exact_matches(items, item_code) # <<>>
  THEN exact_matches(items, item_code)[1]
  ELSE items[1]

\* (item.get('li_drug_name', '') or item.get('drug_name', '') or '').lower()
item_drug(item) == lower(Or(item.li_drug_name, item.drug_name))

\* lines 286-291
filtered(items, drug_name) ==
  SelectSeq(items, LAMBDA item : Contains(lower(drug_name), item_drug(item)))

\* line 292: filtered if filtered else items
SearchResultItems(items, drug_name) ==
  IF filtered(items, drug_name) # <<>> THEN filtered(items, drug_name) ELSE items

\* search_items return value
SearchResults(items, sc) == [items |-> items, schedule_code |-> sc]

\* {key: value for ...} built by assignments in list order
RECURSIVE DictFromEntries(_)
DictFromEntries(entries) ==
  IF entries = <<>> THEN <<>>
  ELSE DictPut(DictFromEntries(SubSeq(entries, 1, Len(entries) - 1)),
               entries[Len(entries)].key, entries[Len(entries)].value)

\* f"{pbs_code} - {drug} [{program}]"
ItemKey(item) ==
  Or(item.pbs_code, NOT_AVAILABLE) \o <<" ", "-", " ">>
    \o Or(Or(item.li_drug_name, item.drug_name), <<"U", "n", "k", "n", "o", "w", "n">>)
    \o <<" ", "[">> \o item.program_code \o <<"]">>

\* lines 457-463
ItemOptions(items) ==
  DictFromEntries([i \in 1..Len(items) |-> [key |-> ItemKey(items[i]), value |-> items[i]]])

\* item_data.get('pbs_code') or item_data.get('code') or 'N/A'
ItemCodeOf(item) == Or(Or(item.pbs_code, item.code), NOT_AVAILABLE)

\* faulty variant: rows without a res_code are not left out
RestrictionCodes_Unfiltered(relationships) ==
  {relationships[i].res_code : i \in 1..Len(relationships)}

\* list(set([r.get('res_code') for r in relationships if r.get('res_code')]))
RestrictionCodes(relationships) ==
  {relationships[i].res_code : i \in 1..Len(relationships)} \ {<<>>}

\* lines 151-157
RestrictionLabel(r) ==
  IF r.treatment_phase # <<>> /\ r.authority_method # <<>>
  THEN r.treatment_phase \o <<" ", "-", " ">> \o <<"(">> \o r.authority_method \o <<")">>
  ELSE IF r.treatment_phase # <<>> THEN r.treatment_phase
  ELSE IF r.authority_method # <<>> THEN <<"(">> \o r.authority_method \o <<")">>
  ELSE r.res_code

\* restriction.get('li_html_text') or restriction.get('schedule_html_text', '')
RestrictionText(r) == Or(r.li_html_text, r.schedule_html_text)

\* lines 159-165
RestrictionEntry(r) ==
  [res_code |-> r.res_code, label |-> RestrictionLabel(r),
   text |-> clean_text(RestrictionText(r)),
   treatment_phase |-> r.treatment_phase, authority_method |-> r.authority_method]

\* lines 111-167
RestrictionList(all_restrictions_list, codes) ==
  LET matching_restrictions ==
        SelectSeq(all_restrictions_list, LAMBDA r : r.res_code \in codes)
      kept ==
        SelectSeq(matching_restrictions,
                  LAMBDA r : clean_text(RestrictionText(r)) # <<>>)
  IN [i \in 1..Len(kept) |-> RestrictionEntry(kept[i])]

\* {r['label']: r for r in restriction_list}
RestrictionOptions(list) ==
  DictFromEntries([i \in 1..Len(list) |-> [key |-> list[i].label, value |-> list[i]]])

HEADER == <<"H", "o", "s", "p", "i", "t", "a", "l", " ", "P", "r", "o", "v", "i", "d", "e", "r", " ", "N", "u", "m", "b", "e", "r", " ", "[">>

\* faulty variant: the item code and the provider number change places
format_authority_application_Swapped(item_code, restrictions, provider_num) ==
  HEADER \o item_code \o <<"]", NL>> \o provider_num \o <<NL>> \o restrictions

format_authority_application(item_code, restrictions, provider_num) ==
  HEADER \o provider_num \o <<"]", NL>> \o item_code \o <<NL>> \o restrictions

\* faulty variant: every item with a benefit type gets a block
ShowsApplication_AnyType(item) == item.benefit_type_code # ""

\* line 387: benefit_type_code in ['A', 'S']
ShowsApplication(item) == item.benefit_type_code \in {"A", "S"}

\* lines 386-391
ApplicationFor(item, text) ==
  IF ShowsApplication(item)
  THEN format_authority_application(ItemCodeOf(item), text, provider_number)
  ELSE <<>>

\* requests.get or response.json() raised: control goes to the except clause
IsException(r) == r.kind \in {"exception", "badjson"}

Emit(msgs, level, by, text) == Append(msgs, Message(level, by, text))

input_vars == <<provider_number, item_code_input, drug_name_input>>

(* ---------------------------------------------------------------------- *)
(* display_item_details                                                   *)
(* ---------------------------------------------------------------------- *)
\* lines 362-406: what the page shows once restriction_list is known
Render(item, list, msgs) ==
  /\ restriction_list' = list
  /\ messages' = msgs
  /\ IF Len(list) > 1
     THEN /\ restriction_options' = RestrictionOptions(list)
          /\ selected_restriction_text' = NO_RESTRICTIONS
          /\ application_text' = <<>>
          /\ pc' = "restriction_select"
     ELSE /\ restriction_options' = <<>>
          /\ selected_restriction_text' =
               (IF Len(list) = 1 THEN list[1].text ELSE NO_RESTRICTIONS)
          /\ application_text' = ApplicationFor(item, selected_restriction_text')
          /\ pc' = "done"

\* line 329, after get_restriction_texts has returned
FoundDebug(msgs) ==
  Emit(msgs, "write", "display_item_details", "DEBUG: Found restrictions")

\* lines 307-328: up to the first request of get_restriction_texts
DisplayItemDetails(item, sc, msgs) ==
  /\ item_data' = item
  /\ IF ItemCodeOf(item) # NOT_AVAILABLE /\ sc # NoScheduleCode
     THEN /\ requests' =
               Append(requests,
                      Request("item-restriction-relationships", ItemCodeOf(item), sc, <<>>))
          /\ response' = NoResponse
          /\ messages' = msgs
          /\ pc' = "relationships"
          /\ UNCHANGED <<restriction_codes, restriction_list, restriction_options,
                         selected_restriction_text, application_text>>
     ELSE /\ requests' = requests
          /\ response' = response
          /\ restriction_codes' = restriction_codes
          /\ Render(item, <<>>, msgs)

\* get_restriction_texts, lines 67-98: the relationship rows arrive
GetRestrictionTexts_Relationships ==
  /\ pc = "relationships"
  /\ \E r \in RelationshipResponses :
       /\ IF IsException(r)
          THEN /\ requests' = requests
               /\ response' = r
               /\ restriction_codes' = {}
               /\ Render(item_data, <<>>,
                         FoundDebug(Emit(messages, "warning", "get_restriction_texts",
                                         "Could not fetch restriction details")))
          ELSE IF \/ r.kind = "status"
                  \/ r.shape = "other"
                  \/ r.data = <<>>
                  \/ RestrictionCodes(r.data) = {}
          THEN /\ requests' = requests
               /\ response' = r
               /\ restriction_codes' = {}
               /\ Render(item_data, <<>>, FoundDebug(messages))
          ELSE /\ restriction_codes' = RestrictionCodes(r.data)
               /\ response' = NoResponse
               /\ requests' =
                    Append(requests, Request("restrictions", <<>>, schedule_code, <<>>))
               /\ pc' = "restrictions"
               /\ UNCHANGED <<messages, restriction_list, restriction_options,
                              selected_restriction_text, application_text>>
  /\ UNCHANGED <<input_vars, lookup_vars, item_data, cleanup_vars>>

\* lines 113-115
RestrictionDebug(msgs) ==
  Emit(Emit(Emit(msgs, "write", "get_restriction_texts",
                 "DEBUG: Total restrictions in schedule"),
            "write", "get_restriction_texts", "DEBUG: Matching restrictions"),
       "write", "get_restriction_texts", "DEBUG: Looking for res_codes")

\* get_restriction_texts, lines 98-173: the restriction records arrive
GetRestrictionTexts_Restrictions ==
  /\ pc = "restrictions"
  /\ \E r \in RestrictionResponses :
       /\ response' = r
       /\ IF IsException(r)
          THEN Render(item_data, <<>>,
                      FoundDebug(Emit(messages, "warning", "get_restriction_texts",
                                      "Could not fetch restriction details")))
          ELSE IF r.kind = "status" \/ r.shape = "other"
          THEN Render(item_data, <<>>, FoundDebug(messages))
          ELSE Render(item_data, RestrictionList(r.data, restriction_codes),
                      FoundDebug(RestrictionDebug(messages)))
  /\ UNCHANGED <<input_vars, requests, lookup_vars, item_data, restriction_codes,
                 cleanup_vars>>

\* lines 371-391: a label is picked in the restriction selectbox
Display_SelectRestriction ==
  /\ pc = "restriction_select"
  /\ \E i \in 1..Len(restriction_options) :
       LET selected_label == DictKeys(restriction_options)[i]
       IN /\ selected_restriction_text' =
               DictGet(restriction_options, selected_label).text
          /\ application_text' = ApplicationFor(item_data, selected_restriction_text')
  /\ pc' = "done"
  /\ UNCHANGED <<input_vars, requests, response, messages, lookup_vars, item_data,
                 restriction_codes, restriction_list, restriction_options,
                 cleanup_vars>>

(* ---------------------------------------------------------------------- *)
(* Tab 1: search by item code                                             *)
(* ---------------------------------------------------------------------- *)
\* lines 416-426 and get_item_by_code up to the schedules request
Tab1_SearchByCode ==
  /\ pc = "idle"
  /\ \E code \in ItemCodeInputs :
       /\ item_code_input' = code
       /\ IF code = <<>>
          THEN /\ messages' = Emit(messages, "warning", "tab1", "Please enter an item code")
               /\ requests' = requests
               /\ pc' = "done"
          ELSE /\ messages' = messages
               /\ requests' = Append(requests, Request("schedules", <<>>, NoScheduleCode, <<>>))
               /\ pc' = "code_schedules"
  /\ UNCHANGED <<provider_number, drug_name_input, response, lookup_vars,
                 display_vars, cleanup_vars>>

\* return None, None after st.error / st.warning
GetItemByCode_Fail(r, level, text) ==
  /\ response' = r
  /\ messages' = Emit(messages, level, "get_item_by_code", text)
  /\ requests' = requests
  /\ schedules' = <<>>
  /\ schedule_code' = NoScheduleCode
  /\ result' = None
  /\ pc' = "code_returned"

\* get_item_by_code, lines 180-213: the schedule list arrives
GetItemByCode_Schedules ==
  /\ pc = "code_schedules"
  /\ \E r \in ScheduleResponses :
       /\ IF IsException(r)
          THEN GetItemByCode_Fail(r, "error", "Error fetching data")
          ELSE IF r.kind = "status"
          THEN GetItemByCode_Fail(r, "error", "Failed to get schedule info")
          ELSE IF r.shape # "data"
          THEN GetItemByCode_Fail(r, "error", "Unexpected schedule response structure")
          ELSE IF r.data = <<>>
          THEN GetItemByCode_Fail(r, "error", "No schedules available")
          ELSE /\ response' = NoResponse
               /\ schedules' = r.data
               /\ schedule_code' = latest_schedule(r.data).schedule_code
               /\ messages' = Emit(messages, "info", "get_item_by_code", "Using schedule")
               /\ requests' =
                    Append(requests,
                           Request("items", upper(item_code_input), schedule_code', <<>>))
               /\ result' = result
               /\ pc' = "code_items"
  /\ UNCHANGED <<input_vars, results, item_options, display_vars, cleanup_vars>>

\* get_item_by_code, lines 213-239: the item list arrives
GetItemByCode_Items ==
  /\ pc = "code_items"
  /\ \E r \in ItemResponses :
       /\ IF IsException(r)
          THEN GetItemByCode_Fail(r, "error", "Error fetching data")
          ELSE IF r.kind = "status"
          THEN GetItemByCode_Fail(r, "error", "API Error")
          ELSE IF r.shape # "data"
          THEN GetItemByCode_Fail(r, "error", "Unexpected items response structure")
          ELSE IF Len(r.data) = 0
          THEN GetItemByCode_Fail(r, "warning", "No items found with code")
          ELSE /\ response' = r
               /\ result' = ItemByCode(r.data, item_code_input)
               /\ schedules' = <<>>
               /\ pc' = "code_returned"
               /\ UNCHANGED <<messages, requests, schedule_code>>
  /\ UNCHANGED <<input_vars, results, item_options, display_vars, cleanup_vars>>

\* lines 420-424
Tab1_Result ==
  /\ pc = "code_returned"
  /\ IF result # None
     THEN DisplayItemDetails(result, schedule_code, messages)
     ELSE /\ messages' = Emit(messages, "error", "tab1", "Item code not found")
          /\ pc' = "done"
          /\ UNCHANGED <<requests, response, display_vars>>
  /\ UNCHANGED <<input_vars, lookup_vars, cleanup_vars>>

(* ---------------------------------------------------------------------- *)
(* Tab 2: search by drug name                                             *)
(* ---------------------------------------------------------------------- *)
\* lines 444-447, 480-481 and search_items up to the schedules request
Tab2_SearchByName ==
  /\ pc = "idle"
  /\ \E name \in DrugNameInputs :
       /\ drug_name_input' = name
       /\ IF name = <<>>
          THEN /\ messages' = Emit(messages, "warning", "tab2", "Please enter a drug name")
               /\ requests' = requests
               /\ pc' = "done"
          ELSE /\ messages' = messages
               /\ requests' = Append(requests, Request("schedules", <<>>, NoScheduleCode, <<>>))
               /\ pc' = "name_schedules"
  /\ UNCHANGED <<provider_number, item_code_input, response, lookup_vars,
                 display_vars, cleanup_vars>>

\* return None, with the messages shown so far
SearchItems_Fail(r, msgs) ==
  /\ response' = r
  /\ messages' = msgs
  /\ requests' = requests
  /\ schedules' = <<>>
  /\ schedule_code' = NoScheduleCode
  /\ results' = None
  /\ pc' = "name_returned"

\* search_items, lines 246-276: the schedule list arrives
SearchItems_Schedules ==
  /\ pc = "name_schedules"
  /\ \E r \in ScheduleResponses :
       IF IsException(r)
       THEN SearchItems_Fail(r, Emit(messages, "error", "search_items", "Error searching"))
       ELSE IF r.kind = "status"
       THEN SearchItems_Fail(r, Emit(messages, "error", "search_items",
                                     "Failed to get schedule info"))
       ELSE IF r.shape # "data" \/ r.data = <<>>
       THEN SearchItems_Fail(r, messages)
       ELSE /\ response' = NoResponse
            /\ schedules' = r.data
            /\ schedule_code' = latest_schedule(r.data).schedule_code
            /\ messages' = Emit(messages, "info", "search_items", "Using schedule")
            /\ requests' =
                 Append(requests,
                        Request("items", <<>>, schedule_code', drug_name_input))
            /\ results' = results
            /\ pc' = "name_items"
  /\ UNCHANGED <<input_vars, result, item_options, display_vars, cleanup_vars>>

\* search_items, lines 276-298: the item list arrives
SearchItems_Items ==
  /\ pc = "name_items"
  /\ \E r \in ItemResponses :
       IF IsException(r)
       THEN SearchItems_Fail(r, Emit(messages, "error", "search_items", "Error searching"))
       ELSE IF r.kind = "status" \/ r.shape # "data"
       THEN SearchItems_Fail(r, messages)
       ELSE /\ response' = r
            /\ results' = SearchResults(SearchResultItems(r.data, drug_name_input),
                                        schedule_code)
            /\ schedules' = <<>>
            /\ pc' = "name_returned"
            /\ UNCHANGED <<messages, requests, schedule_code>>
  /\ UNCHANGED <<input_vars, result, item_options, display_vars, cleanup_vars>>

\* lines 449-479; results and item_options are not read again once an item
\* has been handed to display_item_details
Tab2_Result ==
  /\ pc = "name_returned"
  /\ IF results = None
     THEN /\ messages' = Emit(messages, "error", "tab2", "No results found")
          /\ pc' = "done"
          /\ UNCHANGED <<requests, response, results, item_options, display_vars>>
     ELSE IF Len(results.items) > 1
     THEN /\ messages' = Emit(messages, "success", "tab2", "Found item(s)")
          /\ item_options' = ItemOptions(results.items)
          /\ pc' = "item_select"
          /\ UNCHANGED <<requests, response, results, display_vars>>
     ELSE IF Len(results.items) = 1
     THEN /\ DisplayItemDetails(results.items[1], results.schedule_code,
                                Emit(messages, "success", "tab2", "Found item(s)"))
          /\ results' = None
          /\ item_options' = item_options
     ELSE /\ messages' = Emit(messages, "warning", "tab2", "No items found for")
          /\ pc' = "done"
          /\ UNCHANGED <<requests, response, results, item_options, display_vars>>
  /\ UNCHANGED <<input_vars, schedules, schedule_code, result, cleanup_vars>>

\* lines 465-473: st.selectbox returns the key that is selected in the item
\* selectbox, which can be any of the options
Tab2_SelectItem ==
  /\ pc = "item_select"
  /\ \E i \in 1..Len(item_options) :
       LET selected_item_key == DictKeys(item_options)[i]
           selected_item == DictGet(item_options, selected_item_key)
       IN DisplayItemDetails(selected_item, results.schedule_code, messages)
  /\ results' = None
  /\ item_options' = <<>>
  /\ UNCHANGED <<input_vars, schedules, schedule_code, result, cleanup_vars>>

(* ---------------------------------------------------------------------- *)
(* One interaction with the page                                          *)
(* ---------------------------------------------------------------------- *)
Next ==
  \/ Tab1_SearchByCode
  \/ GetItemByCode_Schedules
  \/ GetItemByCode_Items
  \/ Tab1_Result
  \/ Tab2_SearchByName
  \/ SearchItems_Schedules
  \/ SearchItems_Items
  \/ Tab2_Result
  \/ Tab2_SelectItem
  \/ GetRestrictionTexts_Relationships
  \/ GetRestrictionTexts_Restrictions
  \/ Display_SelectRestriction

Spec == Init /\ [][Next]_vars

(* ---------------------------------------------------------------------- *)
(* The clean-up of get_restriction_texts applied to arbitrary text        *)
(* ---------------------------------------------------------------------- *)
Fragments ==
  { <<"a">>, <<" ">>, <<NL>>, ENT_NBSP, ENT_AMP, ENT_LT, ENT_GT, TAG_BR, TAG_LI,
    <<"l", "t", ";">> }

RECURSIVE Concat(_)
Concat(seqs) == IF seqs = <<>> THEN <<>> ELSE Head(seqs) \o Concat(Tail(seqs))

RawTexts == {Concat(fs) : fs \in SeqUpTo(Fragments, MaxFragments)}

InitCleanup ==
  /\ pc = "cleanup"
  /\ provider_number = <<"0", "0", "0", "0", "0", "0">>
  /\ item_code_input = <<>>
  /\ drug_name_input = <<>>
  /\ requests = <<>>
  /\ response = NoResponse
  /\ messages = <<>>
  /\ schedules = <<>>
  /\ schedule_code = NoScheduleCode
  /\ result = None
  /\ results = None
  /\ item_options = <<>>
  /\ item_data = None
  /\ restriction_codes = {}
  /\ restriction_list = <<>>
  /\ restriction_options = <<>>
  /\ selected_restriction_text = NO_RESTRICTIONS
  /\ application_text = <<>>
  /\ raw_text \in RawTexts
  /\ cleaned_once = <<>>
  /\ cleaned_twice = <<>>

\* lines 128-144 applied to the raw text
CleanOnce ==
  /\ pc = "cleanup"
  /\ cleaned_once' = clean_text(raw_text)
  /\ pc' = "cleaned"
  /\ UNCHANGED <<input_vars, requests, response, messages, lookup_vars,
                 display_vars, raw_text, cleaned_twice>>

\* lines 128-144 applied to their own output
CleanTwice ==
  /\ pc = "cleaned"
  /\ cleaned_twice' = clean_text(cleaned_once)
  /\ pc' = "cleaned_twice"
  /\ UNCHANGED <<input_vars, requests, response, messages, lookup_vars,
                 display_vars, raw_text, cleaned_once>>

NextCleanup == CleanOnce \/ CleanTwice

SpecCleanup == InitCleanup /\ [][NextCleanup]_vars

(* ---------------------------------------------------------------------- *)
(* Properties                                                             *)
(* ---------------------------------------------------------------------- *)
Last(s) == s[Len(s)]

\* the response last received answers a request to this endpoint
Answered(endpoint) ==
  /\ response # NoResponse
  /\ requests # <<>>
  /\ Last(requests).endpoint = endpoint

\* a 200 response with a 'data' array
Wrapped(r) == r.kind = "json" /\ r.shape = "data"

\* positions of the returned items whose pbs_code is the searched code
MatchingPositions(items, item_code) ==
  {i \in 1..Len(items) : upper(items[i].pbs_code) = upper(item_code)}

\* C1: when the item list returned for a code holds an entry whose pbs_code
\* equals the code case-insensitively, get_item_by_code returns one of the
\* entries with that code, wherever it sits in the list.
C1_ExactMatchReturned ==
  ( /\ pc = "code_returned"
    /\ Answered("items")
    /\ Wrapped(response)
    /\ MatchingPositions(response.data, item_code_input) # {} )
  => /\ result # None
     /\ \E i \in MatchingPositions(response.data, item_code_input) :
          result = response.data[i]
     /\ upper(result.pbs_code) = upper(item_code_input)

\* C1 witness: the only entry with the searched code is the second one, and
\* it is the one returned
C1_Witness ==
  /\ pc = "code_returned"
  /\ Answered("items")
  /\ Wrapped(response)
  /\ MatchingPositions(response.data, item_code_input) = {2}
  /\ result = response.data[2]
  /\ result # response.data[1]

\* C2 (as claimed): search_items returns exactly the returned items whose
\* drug name contains the fragment case-insensitively, in upstream order,
\* and an empty list when none does.
C2_ExactlyTheMatchingItems ==
  ( /\ pc = "name_returned"
    /\ Answered("items")
    /\ Wrapped(response) )
  => /\ results # None
     /\ results.items = filtered(response.data, drug_name_input)

\* greatest schedule_code among the entries of a schedule list
MaxScheduleCodeOf(scheds) ==
  Max({scheds[i].schedule_code : i \in 1..Len(scheds)})

\* C3: whatever the order of the schedule entries, get_item_by_code and
\* search_items send the item request with the greatest schedule_code of the
\* returned entries, and every later request of the search carries that same
\* schedule_code.
C3_LatestScheduleUsed ==
  /\ pc \in {"code_items", "name_items"} =>
       /\ Last(requests).endpoint = "items"
       /\ Last(requests).schedule_code = MaxScheduleCodeOf(schedules)
       /\ schedule_code = MaxScheduleCodeOf(schedules)
  /\ \A i \in 3..Len(requests) :
       requests[i].schedule_code = requests[2].schedule_code

\* C3 witness: the greatest schedule_code is in the last entry of the array
\* and is the one all three later requests were sent with
C3_Witness ==
  /\ Len(requests) = 4
  /\ drug_name_input # <<>>
  /\ requests[2].schedule_code = MaxScheduleCode
  /\ requests[4].schedule_code = MaxScheduleCode

\* C3 witness for the item request itself: the entry with the greatest code
\* comes second
C3_WitnessOrder ==
  /\ pc = "code_items"
  /\ Len(schedules) = 2
  /\ schedules[1].schedule_code < schedules[2].schedule_code
  /\ Last(requests).schedule_code = schedules[2].schedule_code

\* C4: a formatted application block exists only for an item whose benefit
\* type is 'A' or 'S'; an Unrestricted ('U') item never has one.
C4_ApplicationOnlyForAuthority ==
  /\ application_text # <<>> =>
       /\ item_data # None
       /\ item_data.benefit_type_code \in {"A", "S"}
  /\ (item_data # None /\ item_data.benefit_type_code = "U") =>
       application_text = <<>>

\* C4 witness: the display of a Phone Authority item has finished with a
\* block on the page
C4_Witness ==
  /\ pc = "done"
  /\ item_data # None
  /\ item_data.benefit_type_code = "A"
  /\ application_text # <<>>

\* C4 second witness: the display of an Unrestricted item has finished
C4_WitnessUnrestricted ==
  /\ pc = "done"
  /\ item_data # None
  /\ item_data.benefit_type_code = "U"
  /\ restriction_list # <<>>
  /\ application_text = <<>>

\* C5 (as claimed): in the search-by-name flow zero candidates give a
\* not-found message and no displayed item, and two or more candidates give
\* a prompt with one option per candidate, in the order of search_items,
\* each option standing for its own candidate.
C5_OneOptionPerCandidate ==
  /\ ( /\ pc = "done"
       /\ results # None
       /\ results.items = <<>> ) =>
       /\ item_data = None
       /\ Last(messages) = Message("warning", "tab2", "No items found for")
  /\ pc = "item_select" =>
       /\ Len(results.items) >= 2
       /\ Len(item_options) = Len(results.items)
       /\ \A i \in 1..Len(results.items) :
            /\ item_options[i].key = ItemKey(results.items[i])
            /\ item_options[i].value = results.items[i]

\* C6 (as claimed): cleaning the output of the clean-up once more returns it
\* unchanged.
C6_CleanupIdempotent ==
  pc = "cleaned_twice" => cleaned_twice = cleaned_once

\* C7: the block on the page is exactly 'Hospital Provider Number [' provider
\* number ']' newline item code newline restriction text, the restriction
\* text (the placeholder included) unchanged and with nothing after it.
C7_ApplicationBlock ==
  application_text # <<>> =>
    /\ application_text =
         HEADER \o provider_number \o <<"]">> \o <<NL>>
           \o ItemCodeOf(item_data) \o <<NL>> \o selected_restriction_text
    /\ Len(application_text) =
         Len(HEADER) + Len(provider_number) + Len(ItemCodeOf(item_data))
           + Len(selected_restriction_text) + 3

\* C7 witness: a block built from a restriction text of two lines
C7_Witness ==
  /\ application_text # <<>>
  /\ selected_restriction_text = <<"a", NL, "b">>
  /\ ItemCodeOf(item_data) # provider_number

\* C7 second witness: a block built from the placeholder
C7_WitnessPlaceholder ==
  /\ application_text # <<>>
  /\ selected_restriction_text = NO_RESTRICTIONS

\* timeout or exception, non-200 status, or a payload that is not JSON or
\* has neither legal shape
Failed(r) ==
  \/ r.kind \in {"exception", "status", "badjson"}
  \/ r.kind = "json" /\ r.shape = "other"

\* the operation that issued the last request
LastOperation ==
  IF Last(requests).endpoint \in {"item-restriction-relationships", "restrictions"}
  THEN "get_restriction_texts"
  ELSE IF item_code_input # <<>> THEN "get_item_by_code" ELSE "search_items"

\* C8 (as claimed): whenever an upstream call of an operation has failed,
\* that operation has shown an error or warning message, and it has returned
\* no result.
C8_FailureReported ==
  (response # NoResponse /\ Failed(response)) =>
    /\ \E i \in 1..Len(messages) :
         /\ messages[i].by = LastOperation
         /\ messages[i].level \in {"error", "warning"}
    /\ LastOperation = "get_item_by_code" => result = None
    /\ LastOperation = "search_items" => results = None
    /\ LastOperation = "get_restriction_texts" => restriction_list = <<>>

\* C9 (as claimed): a bare array of records is handled as the same records
\* under a 'data' key are: a schedule list lets the operation go on to the
\* item request, an item list gives the item or the search result, a
\* restriction list gives the restriction candidates.
C9_BareArrayAccepted ==
  ( /\ response.kind = "json"
    /\ response.shape = "list"
    /\ response.data # <<>> ) =>
    /\ Last(requests).endpoint # "schedules"
    /\ (Last(requests).endpoint = "items" /\ item_code_input # <<>>) =>
         result = ItemByCode(response.data, item_code_input)
    /\ (Last(requests).endpoint = "items" /\ drug_name_input # <<>>) =>
         /\ results # None
         /\ results.items = SearchResultItems(response.data, drug_name_input)
    /\ Last(requests).endpoint = "restrictions" =>
         restriction_list = RestrictionList(response.data, restriction_codes)

Chain == <<"schedules", "items", "item-restriction-relationships", "restrictions">>

\* the requests issued so far are the first requests of the chain, in order
C10_InOrder ==
  /\ Len(requests) <= Len(Chain)
  /\ \A i \in 1..Len(requests) : requests[i].endpoint = Chain[i]

\* a step that issues a request issues it on the outcome the chain asks for
C10_Gated ==
  Len(requests') > Len(requests) =>
    /\ Len(requests') = Len(requests) + 1
    /\ Last(requests').endpoint = "items" =>
         /\ pc \in {"code_schedules", "name_schedules"}
         /\ schedules' # <<>>
    /\ Last(requests').endpoint = "item-restriction-relationships" =>
         /\ pc \in {"code_returned", "name_returned", "item_select"}
         /\ item_data' # None
    /\ Last(requests').endpoint = "restrictions" =>
         /\ pc = "relationships"
         /\ \E c \in restriction_codes' : c # <<>>

\* a failed response ends the chain: neither the step that receives it nor
\* any later step issues a request
C10_FailureEndsChain ==
  /\ Failed(response') => requests' = requests
  /\ Failed(response) => requests' = requests

\* C10: the upstream requests of one search are issued in the order version,
\* item, relationship, restriction; the item request only after a non-empty
\* version list, the relationship request only after an item was found, the
\* restriction request only after relationship rows with a restriction code;
\* after a failed request no further request is issued.
C10_RequestsOrderedAndGated ==
  /\ []C10_InOrder
  /\ [][C10_Gated /\ C10_FailureEndsChain]_vars

\* C10 witness: all four requests of the chain have been issued
C10_Witness ==
  /\ Len(requests) = 4
  /\ pc = "restrictions"

\* the restriction candidates have been resolved and the page is rendered
RestrictionsResolved == pc \in {"restriction_select", "done"} /\ item_data # None

\* C11 (as claimed): in display_item_details zero restriction candidates
\* leave the restriction text as 'No restrictions', one candidate is taken
\* without a prompt, and two or more candidates give a prompt with one
\* option per candidate, in the order returned, each option standing for
\* its own candidate; the text used is the text of a candidate.
C11_OneOptionPerRestriction ==
  /\ (pc = "done" /\ item_data # None /\ restriction_list = <<>>) =>
       /\ restriction_options = <<>>
       /\ selected_restriction_text = NO_RESTRICTIONS
  /\ (pc = "done" /\ Len(restriction_list) = 1) =>
       /\ restriction_options = <<>>
       /\ selected_restriction_text = restriction_list[1].text
  /\ pc = "restriction_select" => Len(restriction_list) >= 2
  /\ (RestrictionsResolved /\ Len(restriction_list) >= 2) =>
       /\ Len(restriction_options) = Len(restriction_list)
       /\ \A i \in 1..Len(restriction_list) :
            /\ restriction_options[i].key = restriction_list[i].label
            /\ restriction_options[i].value = restriction_list[i]
       /\ pc = "done" =>
            \E i \in 1..Len(restriction_list) :
              selected_restriction_text = restriction_list[i].text

====
